---- MODULE Spec2Model ----
(***************************************************************************)
(* The storyboard generator of src/index.tsx (component App): the React    *)
(* state of the component, the async function generateStoryboard cut at    *)
(* its await points, the two navigation handlers and the rendered          *)
(* controls that gate them.                                                *)
(*                                                                         *)
(* A "published snapshot" is a committed value of the state variable       *)
(* storyboard.  Every synchronous stretch of generateStoryboard (from one  *)
(* await to the next) is one action: JavaScript runs it to completion and  *)
(* React 18 (createRoot) commits all the setState calls of the stretch in  *)
(* one batch.                                                              *)
(***************************************************************************)
EXTENDS Integers, Sequences, FiniteSets, TLC

VARIABLES
    storyboard,          \* useState<Scene[]>([])            line 12
    concept,             \* useState("")                     line 13
    currentSceneIndex,   \* useState(0)                      line 14
    isLoading,           \* useState(false), the busy flag   line 15
    error,               \* useState<string | null>(null)    line 16
    runs,                \* the invocations of generateStoryboard, in start order
    textCalls,           \* ai.models.generateContent calls issued, as run ids
    owner                \* the run whose setStoryboard call wrote storyboard last

vars == <<storyboard, concept, currentSceneIndex, isLoading, error, runs,
          textCalls, owner>>

----------------------------------------------------------------------------
(* Bounds of the model *)

\* generateStoryboard invocations that get past the blank check
MaxRuns == 2
\* longest array the text-generation service returns
MaxScenes == 5
\* longest concept the user types
MaxConceptLen == 2

(* Constants of the program *)

\* "Create a storyboard with 5 scenes."
ExpectedScenes == 5

Null == "<null>"
Undefined == "<undefined>"
ValidationMessage == "Please enter a concept to explain."
GenericMessage == "Failed to generate the storyboard. Please try again."
DataUrlPrefix == "data:image/jpeg;base64,"

----------------------------------------------------------------------------
(* Strings the user types: sequences of characters, so that trim() is      *)
(* computed and not assumed.                                               *)

Chars == {" ", "x"}

Concepts == UNION {[1..n -> Chars] : n \in 0..MaxConceptLen}

IsWhitespace(c) == c = " "

RECURSIVE TrimStart(_)
TrimStart(s) ==
    IF s = << >> THEN << >>
    ELSE IF IsWhitespace(Head(s)) THEN TrimStart(Tail(s))
    ELSE s

RECURSIVE TrimEnd(_)
TrimEnd(s) ==
    IF s = << >> THEN << >>
    ELSE IF IsWhitespace(s[Len(s)]) THEN TrimEnd(SubSeq(s, 1, Len(s) - 1))
    ELSE s

\* String.prototype.trim
Trim(s) == TrimEnd(TrimStart(s))

\* concept.trim() === ""
IsBlank(s) == Trim(s) = << >>

----------------------------------------------------------------------------
(* What the text-generation service may answer.  The response schema asks  *)
(* for an array of {scene, narration} objects but bounds neither the       *)
(* number of items nor requires a property, so the reply is any of: a      *)
(* rejected call, text that is not JSON, JSON that is not an array, an     *)
(* array of any length whose items may lack narration, carry an empty one, *)
(* or be null.                                                             *)

NarrationText(k) == "narration " \o ToString(k)

GoodItem(k) == [kind |-> "object", narration |-> NarrationText(k)]
EmptyItem == [kind |-> "object", narration |-> ""]
MissingItem == [kind |-> "object", narration |-> Undefined]
NullItem == [kind |-> "null", narration |-> Undefined]

GoodItems(n) == [k \in 1..n |-> GoodItem(k)]

\* the length whose malformed variants are enumerated
VariantLen == IF ExpectedScenes <= MaxScenes THEN ExpectedScenes ELSE MaxScenes

\* where the malformed item sits
VariantPositions == {VariantLen}

ItemLists ==
    {GoodItems(n) : n \in 0..MaxScenes}
    \cup {[GoodItems(VariantLen) EXCEPT ![k] = bad] :
             k \in VariantPositions, bad \in {EmptyItem, MissingItem, NullItem}}

Rejected == [status |-> "rejected", syntax |-> "none", items |-> << >>]
NotJson == [status |-> "resolved", syntax |-> "invalid", items |-> << >>]
JsonObject == [status |-> "resolved", syntax |-> "object", items |-> << >>]
JsonArray(items) == [status |-> "resolved", syntax |-> "array", items |-> items]

NarrationResponses ==
    {Rejected, NotJson, JsonObject} \cup {JsonArray(items) : items \in ItemLists}

(* What the image-generation service may answer: a payload, a rejected     *)
(* call, or a resolved call without any generated image (reading           *)
(* generatedImages[0].image then throws inside the inner try).  One        *)
(* payload stands for all: the code copies the bytes into the URL and      *)
(* never inspects them.                                                    *)
ImageOk == [status |-> "resolved", images |-> 1, imageBytes |-> "AAAA"]
ImageRejected == [status |-> "rejected", images |-> 0, imageBytes |-> ""]
ImageNone == [status |-> "resolved", images |-> 0, imageBytes |-> ""]

ImageResponses == {ImageOk, ImageRejected, ImageNone}

----------------------------------------------------------------------------
(* Scenes and the pure steps of generateStoryboard *)

Scene(narration) ==
    [narration |-> narration, imageUrl |-> Null, isLoadingImage |-> TRUE]

\* Does the try block throw before setStoryboard(initialStoryboard)?  The
\* awaited call rejects, JSON.parse throws, parsedScenes.map is not a
\* function, or s.narration reads a property of null.
NarrationThrows(resp) ==
    \/ resp.status = "rejected"
    \/ resp.syntax = "invalid"
    \/ resp.syntax # "array"
    \/ \E k \in 1..Len(resp.items) : resp.items[k].kind = "null"

\* parsedScenes.map((s) => ({narration: s.narration, imageUrl: null,
\*                           isLoadingImage: true}))
InitialStoryboard(items) == [k \in 1..Len(items) |-> Scene(items[k].narration)]

\* Does the inner try block throw?  The awaited call rejects, or
\* generatedImages[0] is undefined.
ImageThrows(resp) == resp.status = "rejected" \/ resp.images = 0

\* `data:image/jpeg;base64,${base64ImageBytes}`
ImageUrl(resp) == DataUrlPrefix \o resp.imageBytes

\* Fault variant: the catch block of the image request does not touch the
\* storyboard, so a failed scene keeps its loading flag.
MergeImageFailureKeepsLoading(current, i, resp) ==
    [index \in 1..Len(current) |->
        IF index - 1 = i /\ ~ImageThrows(resp)
        THEN [current[index] EXCEPT !.imageUrl = ImageUrl(resp),
                                    !.isLoadingImage = FALSE]
        ELSE current[index]]

\* Fault variant: the merge compares index with i + 1, so each result lands
\* on the scene after the one it was requested for.
MergeImageOffByOne(current, i, resp) ==
    [index \in 1..Len(current) |->
        IF index - 1 = i + 1
        THEN IF ImageThrows(resp)
             THEN [current[index] EXCEPT !.isLoadingImage = FALSE, !.imageUrl = Null]
             ELSE [current[index] EXCEPT !.imageUrl = ImageUrl(resp),
                                         !.isLoadingImage = FALSE]
        ELSE current[index]]

\* Fault variant: the success branch sets imageUrl and forgets the loading
\* flag.
MergeImageSetsUrlKeepsLoading(current, i, resp) ==
    [index \in 1..Len(current) |->
        IF index - 1 = i
        THEN IF ImageThrows(resp)
             THEN [current[index] EXCEPT !.isLoadingImage = FALSE, !.imageUrl = Null]
             ELSE [current[index] EXCEPT !.imageUrl = ImageUrl(resp)]
        ELSE current[index]]

\* Fault variant: the merge maps initialStoryboard instead of
\* currentStoryboard, so every other scene falls back to its initial value.
MergeImageFromInitial(current, i, resp) ==
    [index \in 1..Len(current) |->
        IF index - 1 = i
        THEN IF ImageThrows(resp)
             THEN [current[index] EXCEPT !.isLoadingImage = FALSE, !.imageUrl = Null]
             ELSE [current[index] EXCEPT !.imageUrl = ImageUrl(resp),
                                         !.isLoadingImage = FALSE]
        ELSE Scene(current[index].narration)]

\* currentStoryboard.map((s, index) => index === i ? {...} : s), in the try
\* block and in the catch block; i counts from 0 as in the source.
MergeImage(current, i, resp) ==
    [index \in 1..Len(current) |->
        IF index - 1 = i
        THEN IF ImageThrows(resp)
             THEN [current[index] EXCEPT !.isLoadingImage = FALSE, !.imageUrl = Null]
             ELSE [current[index] EXCEPT !.imageUrl = ImageUrl(resp),
                                         !.isLoadingImage = FALSE]
        ELSE current[index]]

Max(a, b) == IF a >= b THEN a ELSE b
Min(a, b) == IF a <= b THEN a ELSE b

\* (prev) => Math.max(prev - 1, 0)
PrevIndex(prev) == Max(prev - 1, 0)

\* Fault variant: the clamp uses storyboard.length.
NextIndexClampAtLength(prev, length) == Min(prev + 1, length)

\* (prev) => Math.min(prev + 1, storyboard.length - 1)
NextIndex(prev, length) == Min(prev + 1, length - 1)

----------------------------------------------------------------------------
(* One invocation of generateStoryboard: where it is suspended, its local  *)
(* variables, and a log of what passed between it and the two services:    *)
(* the narration response it received, the generateImages calls it has     *)
(* issued (scene indices, in order) and those of them that failed.         *)

NoResponse == [status |-> "pending", syntax |-> "none", items |-> << >>]

NewRun == [pc |-> "narrating", i |-> 0,
           initialStoryboard |-> << >>, currentStoryboard |-> << >>,
           narrationResponse |-> NoResponse,
           imageCalls |-> << >>, imageFailures |-> {}]

\* An invocation that has returned: its locals are gone, its log is kept
\* until the next invocation starts.
Returned(run, pc) == [run EXCEPT !.pc = pc, !.i = 0,
                                 !.initialStoryboard = << >>,
                                 !.currentStoryboard = << >>]

IsActive(run) == run.pc \in {"narrating", "imaging"}

Forget(run) == IF IsActive(run) THEN run
               ELSE [run EXCEPT !.narrationResponse = NoResponse,
                                !.imageCalls = << >>, !.imageFailures = {}]

Active(r) == IsActive(runs[r])

ActiveRuns == {r \in 1..Len(runs) : Active(r)}

Init ==
    /\ storyboard = << >>
    /\ concept = << >>
    /\ currentSceneIndex = 0
    /\ isLoading = FALSE
    /\ error = Null
    /\ runs = << >>
    /\ textCalls = << >>
    /\ owner = 0

\* onChange={(e) => setConcept(e.target.value)}
setConcept(value) ==
    /\ concept' = value
    /\ UNCHANGED <<storyboard, currentSceneIndex, isLoading, error, runs,
                   textCalls, owner>>

\* Fault variant: generateStoryboard without its blank check.
generateStoryboardNoBlankCheck ==
    /\ Len(runs) < MaxRuns
    /\ isLoading' = TRUE
    /\ error' = Null
    /\ storyboard' = << >>
    /\ currentSceneIndex' = 0
    /\ runs' = Append([r \in 1..Len(runs) |-> Forget(runs[r])], NewRun)
    /\ textCalls' = Append(textCalls, Len(runs) + 1)
    /\ owner' = Len(runs) + 1
    /\ UNCHANGED concept

\* Fault variant: the reset runs before the blank check.
generateStoryboardResetsFirst ==
    IF IsBlank(concept)
    THEN /\ error' = ValidationMessage
         /\ storyboard' = << >>
         /\ currentSceneIndex' = 0
         /\ owner' = 0
         /\ UNCHANGED <<concept, isLoading, runs, textCalls>>
    ELSE /\ Len(runs) < MaxRuns
         /\ isLoading' = TRUE
         /\ error' = Null
         /\ storyboard' = << >>
         /\ currentSceneIndex' = 0
         /\ runs' = Append([r \in 1..Len(runs) |-> Forget(runs[r])], NewRun)
         /\ textCalls' = Append(textCalls, Len(runs) + 1)
         /\ owner' = Len(runs) + 1
         /\ UNCHANGED concept

\* generateStoryboard up to its first await: the blank check, the reset and
\* the narration request.
generateStoryboard ==
    IF IsBlank(concept)
    THEN /\ error' = ValidationMessage
         /\ UNCHANGED <<storyboard, concept, currentSceneIndex, isLoading, runs,
                        textCalls, owner>>
    ELSE /\ Len(runs) < MaxRuns
         /\ isLoading' = TRUE
         /\ error' = Null
         /\ storyboard' = << >>
         /\ currentSceneIndex' = 0
         /\ runs' = Append([r \in 1..Len(runs) |-> Forget(runs[r])], NewRun)
         /\ textCalls' = Append(textCalls, Len(runs) + 1)
         /\ owner' = Len(runs) + 1
         /\ UNCHANGED concept

\* Fault variant: the catch block only logs.
CatchWithoutError == UNCHANGED error

\* Fault variant: no finally block.
FinallyMissing == UNCHANGED isLoading

\* catch (e) { console.error(e); setError("Failed to generate ...") }
Catch == error' = GenericMessage

\* finally { setIsLoading(false) }
Finally == isLoading' = FALSE

\* The narration call of run r settles with resp: parse and install, then
\* either the first image request, or the end of the function (an empty
\* array, or the catch block), each followed by the finally block.
NarrationSettles(r, resp) ==
    /\ runs[r].pc = "narrating"
    /\ LET received == [runs[r] EXCEPT !.narrationResponse = resp] IN
       IF NarrationThrows(resp)
       THEN /\ Catch
            /\ Finally
            /\ runs' = [runs EXCEPT ![r] = Returned(received, "failed")]
            /\ UNCHANGED <<storyboard, owner>>
       ELSE LET initial == InitialStoryboard(resp.items) IN
            /\ storyboard' = initial
            /\ owner' = r
            /\ IF Len(initial) = 0
               THEN /\ Finally
                    /\ runs' = [runs EXCEPT ![r] = Returned(received, "done")]
               ELSE /\ runs' = [runs EXCEPT ![r] =
                                   [received EXCEPT !.pc = "imaging",
                                                    !.i = 0,
                                                    !.initialStoryboard = initial,
                                                    !.currentStoryboard = initial,
                                                    !.imageCalls = <<0>>]]
                    /\ UNCHANGED isLoading
            /\ UNCHANGED error
    /\ UNCHANGED <<concept, currentSceneIndex, textCalls>>

\* Fault variant: after a failed image call the loop asks once more for the
\* same scene.
ImageSettlesRetriesOnce(r, resp) ==
    /\ runs[r].pc = "imaging"
    /\ LET i == runs[r].i
           merged == MergeImage(runs[r].currentStoryboard, i, resp)
           retry == ImageThrows(resp) /\ i \notin runs[r].imageFailures
           more == i + 1 < Len(runs[r].initialStoryboard)
           logged == [runs[r] EXCEPT !.imageFailures =
                         IF ImageThrows(resp) THEN @ \cup {i} ELSE @]
       IN  /\ storyboard' = merged
           /\ owner' = r
           /\ IF retry
              THEN /\ runs' = [runs EXCEPT ![r] =
                                  [logged EXCEPT !.currentStoryboard = merged,
                                                 !.imageCalls = Append(@, i)]]
                   /\ UNCHANGED isLoading
              ELSE IF more
              THEN /\ runs' = [runs EXCEPT ![r] =
                                  [logged EXCEPT !.i = i + 1,
                                                 !.currentStoryboard = merged,
                                                 !.imageCalls = Append(@, i + 1)]]
                   /\ UNCHANGED isLoading
              ELSE /\ runs' = [runs EXCEPT ![r] = Returned(logged, "done")]
                   /\ Finally
    /\ UNCHANGED <<concept, currentSceneIndex, error, textCalls>>

\* Fault variant: no inner try/catch, a failed image call reaches the outer
\* catch block and ends the run.
ImageSettlesStopsOnFailure(r, resp) ==
    /\ runs[r].pc = "imaging"
    /\ LET i == runs[r].i
           merged == MergeImage(runs[r].currentStoryboard, i, resp)
           more == i + 1 < Len(runs[r].initialStoryboard)
           logged == [runs[r] EXCEPT !.imageFailures =
                         IF ImageThrows(resp) THEN @ \cup {i} ELSE @]
       IN  IF ImageThrows(resp)
           THEN /\ Catch
                /\ Finally
                /\ runs' = [runs EXCEPT ![r] = Returned(logged, "failed")]
                /\ UNCHANGED <<storyboard, owner>>
           ELSE /\ storyboard' = merged
                /\ owner' = r
                /\ IF more
                   THEN /\ runs' = [runs EXCEPT ![r] =
                                       [logged EXCEPT !.i = i + 1,
                                                      !.currentStoryboard = merged,
                                                      !.imageCalls = Append(@, i + 1)]]
                        /\ UNCHANGED isLoading
                   ELSE /\ runs' = [runs EXCEPT ![r] = Returned(logged, "done")]
                        /\ Finally
                /\ UNCHANGED error
    /\ UNCHANGED <<concept, currentSceneIndex, textCalls>>

\* The image call of run r for scene i settles with resp: merge, publish,
\* then either the next image request or the finally block.
ImageSettles(r, resp) ==
    /\ runs[r].pc = "imaging"
    /\ LET i == runs[r].i
           merged == MergeImage(runs[r].currentStoryboard, i, resp)
           more == i + 1 < Len(runs[r].initialStoryboard)
           logged == [runs[r] EXCEPT !.imageFailures =
                         IF ImageThrows(resp) THEN @ \cup {i} ELSE @]
       IN  /\ storyboard' = merged
           /\ owner' = r
           /\ IF more
              THEN /\ runs' = [runs EXCEPT ![r] =
                                  [logged EXCEPT !.i = i + 1,
                                                 !.currentStoryboard = merged,
                                                 !.imageCalls = Append(@, i + 1)]]
                   /\ UNCHANGED isLoading
              ELSE /\ runs' = [runs EXCEPT ![r] = Returned(logged, "done")]
                   /\ Finally
    /\ UNCHANGED <<concept, currentSceneIndex, error, textCalls>>

handlePrev ==
    /\ currentSceneIndex' = PrevIndex(currentSceneIndex)
    /\ UNCHANGED <<storyboard, concept, isLoading, error, runs, textCalls,
                   owner>>

handleNext ==
    /\ currentSceneIndex' = NextIndex(currentSceneIndex, Len(storyboard))
    /\ UNCHANGED <<storyboard, concept, isLoading, error, runs, textCalls,
                   owner>>

----------------------------------------------------------------------------
(* The rendered controls *)

\* {storyboard.length === 0 && !isLoading && (<> input, button </>)}
FormRendered == Len(storyboard) = 0 /\ ~isLoading

\* disabled={isLoading || concept.trim() === ''}
GenerateDisabled == isLoading \/ IsBlank(concept)

\* Fault variant: the form and its button do not look at isLoading.
GenerateControlIgnoringBusy == Len(storyboard) = 0 /\ ~IsBlank(concept)

\* Fault variant: the form is rendered whatever the storyboard holds.
GenerateControlIgnoringStoryboard == ~isLoading /\ ~IsBlank(concept)

\* the "Tell me a Story" button can be clicked
GenerateControl == FormRendered /\ ~GenerateDisabled

\* {storyboard.length > 0 && currentScene && (...)}
StoryboardRendered ==
    /\ Len(storyboard) > 0
    /\ currentSceneIndex + 1 \in DOMAIN storyboard

\* disabled={currentSceneIndex === 0}
PrevControl == StoryboardRendered /\ currentSceneIndex # 0

\* disabled={currentSceneIndex === storyboard.length - 1}
NextControl == StoryboardRendered /\ currentSceneIndex # Len(storyboard) - 1

TypeConcept == \E value \in Concepts : FormRendered /\ setConcept(value)
ClickGenerate == GenerateControl /\ generateStoryboard
ClickPrev == PrevControl /\ handlePrev
ClickNext == NextControl /\ handleNext
NarrationReturns ==
    \E r \in 1..Len(runs), resp \in NarrationResponses : NarrationSettles(r, resp)
ImageReturns ==
    \E r \in 1..Len(runs), resp \in ImageResponses : ImageSettles(r, resp)

(* The application: the handlers run only through the rendered controls.   *)
(* React commits the updates of a click handler before the next event is   *)
(* dispatched, so a control is judged on the committed state.              *)
Next ==
    \/ TypeConcept
    \/ ClickGenerate
    \/ ClickPrev
    \/ ClickNext
    \/ NarrationReturns
    \/ ImageReturns

Spec == Init /\ [][Next]_vars

(* The application with both services answering every call: an awaited     *)
(* generateContent or generateImages promise eventually settles.           *)
SpecFair ==
    Init /\ [][Next]_vars /\ WF_vars(NarrationReturns) /\ WF_vars(ImageReturns)

(* The core behind the presentation layer: generateStoryboard, prev() and  *)
(* next() are called directly, in any state, by a caller that starts no    *)
(* run while the busy flag is set.                                         *)
CallSetConcept == \E value \in Concepts : setConcept(value)
CallGenerate == ~isLoading /\ generateStoryboard
CallPrev == handlePrev
CallNext == handleNext

NextCore ==
    \/ CallSetConcept
    \/ CallGenerate
    \/ CallPrev
    \/ CallNext
    \/ NarrationReturns
    \/ ImageReturns

SpecCore == Init /\ [][NextCore]_vars

(* The same core with a caller that also starts a run while one is in      *)
(* progress, from the state in which a concept has been typed.             *)
InitOverlap ==
    /\ storyboard = << >>
    /\ concept = <<"x">>
    /\ currentSceneIndex = 0
    /\ isLoading = FALSE
    /\ error = Null
    /\ runs = << >>
    /\ textCalls = << >>
    /\ owner = 0

CallGenerateAnyTime == generateStoryboard

NextOverlap ==
    \/ CallGenerateAnyTime
    \/ CallPrev
    \/ CallNext
    \/ NarrationReturns
    \/ ImageReturns

SpecOverlap == InitOverlap /\ [][NextOverlap]_vars

----------------------------------------------------------------------------
(* Properties *)

LastRun == runs[Len(runs)]

\* the last invocation has returned through the end of the try block
LastRunDone == Len(runs) > 0 /\ LastRun.pc = "done"

\* C1 - Image failure isolation: when a run whose narration call succeeded
\* has ended, it has issued one image call for every scene (0, 1, ...), busy
\* is false and no error is set, no scene is loading, and a scene has no
\* imageUrl exactly when its image call is in the set F of failed calls.
C1_ImageFailureIsolation ==
    LastRunDone =>
        /\ LastRun.imageCalls = [k \in 1..Len(storyboard) |-> k - 1]
        /\ ~isLoading
        /\ error = Null
        /\ \A k \in 1..Len(storyboard) :
              /\ ~storyboard[k].isLoadingImage
              /\ storyboard[k].imageUrl = Null <=> (k - 1) \in LastRun.imageFailures

\* a run of five scenes has ended with exactly the image call of scene 2 failed
C1_Witness ==
    /\ LastRunDone
    /\ Len(storyboard) = ExpectedScenes
    /\ LastRun.imageFailures = {2}

\* C2 - Snapshot ordering: the first non-empty snapshot has every scene
\* loading and without imageUrl; every later snapshot differs from the one
\* before at exactly one index, which stops loading (imageUrl absent exactly
\* when that image call failed), and that index is the lowest one still
\* loading, so scene i is resolved before scene i+1.
C2_SnapshotOrdering ==
    [][storyboard' # storyboard =>
         IF storyboard = << >>
         THEN \A k \in 1..Len(storyboard') :
                 /\ storyboard'[k].isLoadingImage
                 /\ storyboard'[k].imageUrl = Null
         ELSE /\ Len(storyboard') = Len(storyboard)
              /\ \E i \in 1..Len(storyboard) :
                    /\ \A j \in 1..Len(storyboard) :
                          /\ j # i => storyboard'[j] = storyboard[j]
                          /\ j < i => ~storyboard[j].isLoadingImage
                          /\ j > i => storyboard'[j].isLoadingImage
                    /\ storyboard[i].isLoadingImage
                    /\ ~storyboard'[i].isLoadingImage
                    /\ storyboard'[i].narration = storyboard[i].narration
                    /\ storyboard'[i].imageUrl = Null
                          <=> (i - 1) \in runs'[owner'].imageFailures
    ]_vars

\* scene 0 resolved with an image, scene 1 resolved without, scene 2 loading
C2_Witness ==
    /\ Len(storyboard) = ExpectedScenes
    /\ ~storyboard[1].isLoadingImage /\ storyboard[1].imageUrl # Null
    /\ ~storyboard[2].isLoadingImage /\ storyboard[2].imageUrl = Null
    /\ storyboard[3].isLoadingImage

\* the text-generation call was rejected, or its text is not JSON
TextGenerationErrored(run) == run.narrationResponse \in {Rejected, NotJson}

\* C3 - Fatal narration failure: while a run waits for its narration the
\* storyboard is empty and the run has issued no image call; when the
\* text-generation call has errored the run has ended in the catch block
\* with the storyboard still empty, no image call, the generic error set and
\* busy false.
C3_FatalNarrationFailure ==
    /\ \A r \in 1..Len(runs) :
          runs[r].pc = "narrating" =>
              storyboard = << >> /\ runs[r].imageCalls = << >>
    /\ (Len(runs) > 0 /\ TextGenerationErrored(LastRun)) =>
          /\ LastRun.pc = "failed"
          /\ storyboard = << >>
          /\ LastRun.imageCalls = << >>
          /\ error = GenericMessage
          /\ ~isLoading

\* a second run has ended on a rejected text-generation call
C3_Witness ==
    /\ Len(runs) = 2
    /\ LastRun.narrationResponse = Rejected
    /\ LastRun.pc = "failed"

\* C4 - A run that has completed without a run-level error has a storyboard
\* of exactly 5 scenes, each with a non-empty narration.
C4_ExactlyFiveScenes ==
    (LastRunDone /\ error = Null) =>
        /\ Len(storyboard) = ExpectedScenes
        /\ \A k \in 1..Len(storyboard) :
              storyboard[k].narration \notin {"", Undefined}

\* the declared shape: an array of ExpectedScenes objects, each with a
\* narration string
Conforms(resp) ==
    /\ resp.status = "resolved"
    /\ resp.syntax = "array"
    /\ Len(resp.items) = ExpectedScenes
    /\ \A k \in 1..Len(resp.items) :
          resp.items[k].kind = "object" /\ resp.items[k].narration # Undefined

\* C5 - A response that does not conform to the declared shape is a
\* GenerationError: the run ends in the catch block, the storyboard stays
\* empty, the error is set and busy is false.
C5_NonConformingIsGenerationError ==
    (Len(runs) > 0 /\ LastRun.narrationResponse # NoResponse
                   /\ ~Conforms(LastRun.narrationResponse)) =>
        /\ LastRun.pc = "failed"
        /\ storyboard = << >>
        /\ error = GenericMessage
        /\ ~isLoading

\* C6 - Busy flag: busy is true exactly in the states in which a run is in
\* progress (accepted and not yet at its terminal step).
C6_BusyFlag == isLoading <=> ActiveRuns # {}

\* busy during the imaging phase of a run that follows a failed run
C6_Witness ==
    /\ Len(runs) = 2
    /\ runs[1].pc = "failed"
    /\ runs[2].pc = "imaging"
    /\ runs[2].i > 0
    /\ isLoading

\* C7 - Cursor bounds: whenever the storyboard is not empty,
\* 0 <= cursor <= length - 1.
C7_CursorBounds ==
    Len(storyboard) > 0 =>
        currentSceneIndex >= 0 /\ currentSceneIndex <= Len(storyboard) - 1

\* C8 - A new run resets the cursor to 0 and empties the storyboard, and from
\* then on every non-empty snapshot is written by the newest run: no scene
\* and no image result of an earlier run is published once a later run has
\* started.
C8_NewRunDiscardsPrevious ==
    [][/\ Len(runs') > Len(runs) =>
             currentSceneIndex' = 0 /\ storyboard' = << >>
       /\ storyboard' # << >> => owner' = Len(runs')
    ]_vars

\* C9 - generateStoryboard with an empty or whitespace-only concept sets the
\* validation error and issues no text-generation call and no image call
\* (it starts no run and leaves every run's call log as it was).
C9_BlankConceptRejected ==
    [][(IsBlank(concept) /\ generateStoryboard) =>
           /\ error' = ValidationMessage
           /\ textCalls' = textCalls
           /\ runs' = runs
    ]_vars

\* a whitespace-only concept was rejected before any call was issued
C9_Witness ==
    /\ concept # << >>
    /\ IsBlank(concept)
    /\ error = ValidationMessage
    /\ textCalls = << >>

\* C10 - Single flight: at most one run is in progress, and the generate
\* control is unavailable whenever busy is true.
C10_SingleFlight ==
    /\ Cardinality(ActiveRuns) <= 1
    /\ isLoading => ~GenerateControl

\* a second run is in progress, started after the first one ended
C10_Witness ==
    /\ Len(runs) = 2
    /\ ~Active(1)
    /\ Active(2)

\* the scenes (1-based positions) whose image result has been merged
ResolvedScenes == {k \in 1..Len(storyboard) : ~storyboard[k].isLoadingImage}

\* C11 - Strictly sequential imaging: a run that waits for the image of
\* scene i has issued exactly the calls 0, 1, ..., i, once each and in that
\* order, the results of scenes 0..i-1 and of no other scene are merged and
\* published, so exactly one image call is outstanding; a run that waits
\* for its narration has issued none; a run that has ended normally has
\* issued 0..L-1 and none is outstanding.
C11_SequentialImaging ==
    \A r \in 1..Len(runs) :
        LET calls == runs[r].imageCalls IN
        /\ runs[r].pc = "narrating" => calls = << >>
        /\ runs[r].pc = "imaging" =>
              /\ calls = [k \in 1..(runs[r].i + 1) |-> k - 1]
              /\ Len(calls) <= Len(storyboard)
              /\ ResolvedScenes = 1..runs[r].i
              /\ Len(calls) - Cardinality(ResolvedScenes) = 1
        /\ (r = Len(runs) /\ runs[r].pc = "done") =>
              /\ calls = [k \in 1..Len(storyboard) |-> k - 1]
              /\ Len(calls) - Cardinality(ResolvedScenes) = 0

\* the call for scene 3 is outstanding after the call for scene 1 failed
C11_Witness ==
    /\ Len(runs) > 0
    /\ LastRun.pc = "imaging"
    /\ LastRun.i = 3
    /\ LastRun.imageFailures = {1}
    /\ LastRun.imageCalls = <<0, 1, 2, 3>>

\* C12 - Completion: whenever busy is false and the storyboard is not
\* empty, no scene is loading; so busy is cleared only once the last
\* scene's image result is merged and published.
C12_Completion ==
    (~isLoading /\ Len(storyboard) > 0) =>
        \A k \in 1..Len(storyboard) : ~storyboard[k].isLoadingImage

\* busy has been cleared on a storyboard of five scenes with all images set
C12_Witness ==
    /\ ~isLoading
    /\ Len(storyboard) = ExpectedScenes
    /\ \A k \in 1..Len(storyboard) : storyboard[k].imageUrl # Null

\* C13 - Termination: when every awaited call eventually settles, a run in
\* progress eventually reaches a state where no run is in progress and busy
\* is false, whatever the calls answer.
C13_Termination == isLoading ~> (ActiveRuns = {} /\ ~isLoading)

\* a run of five scenes has ended although every image call failed
C13_Witness ==
    /\ LastRunDone
    /\ ~isLoading
    /\ Len(storyboard) = ExpectedScenes
    /\ LastRun.imageFailures = 0..(ExpectedScenes - 1)

\* C14 - Whenever a new storyboard is installed (the storyboard goes from
\* empty to non-empty), the cursor is 0 in the state that holds it.
C14_CursorZeroAtInstall ==
    [][(storyboard = << >> /\ storyboard' # << >>) => currentSceneIndex' = 0]_vars

\* C15 - Navigation step: on a storyboard of length L > 0 with the cursor c
\* in 0..L-1, prev() leaves c at 0 and otherwise moves it down by one,
\* next() leaves c at L-1 and otherwise moves it up by one, and neither
\* changes the storyboard, the busy flag or the error.
C15_NavigationStep ==
    [][(Len(storyboard) > 0 /\ currentSceneIndex >= 0
                            /\ currentSceneIndex <= Len(storyboard) - 1) =>
           /\ handlePrev =>
                 /\ currentSceneIndex' = IF currentSceneIndex = 0 THEN 0
                                         ELSE currentSceneIndex - 1
                 /\ UNCHANGED <<storyboard, isLoading, error>>
           /\ handleNext =>
                 /\ currentSceneIndex' =
                       IF currentSceneIndex = Len(storyboard) - 1
                       THEN currentSceneIndex
                       ELSE currentSceneIndex + 1
                 /\ UNCHANGED <<storyboard, isLoading, error>>
    ]_vars

\* next() has moved the cursor three scenes up on a five-scene storyboard
\* whose images are all still loading
C15_Witness ==
    /\ Len(storyboard) = ExpectedScenes
    /\ currentSceneIndex = ExpectedScenes - 2
    /\ ResolvedScenes = {}

\* C16 - A generateStoryboard call with a blank concept leaves the
\* storyboard, the cursor and the busy flag exactly as they were.
C16_BlankCallChangesNothing ==
    [][(IsBlank(concept) /\ generateStoryboard) =>
           UNCHANGED <<storyboard, currentSceneIndex, isLoading>>
    ]_vars

\* a blank call was rejected while a generated storyboard is on display,
\* the cursor off its initial position
C16_Witness ==
    /\ IsBlank(concept)
    /\ error = ValidationMessage
    /\ Len(storyboard) > 1
    /\ currentSceneIndex = 1
    /\ ~isLoading

\* C17 - Scene flags within a run: scenes are created loading and without
\* imageUrl; a loading scene has no imageUrl; a scene that has stopped
\* loading never loads again and keeps its imageUrl (absent stays absent).
C17_SceneFlagLifecycle ==
    [][/\ storyboard = << >> =>
             \A k \in 1..Len(storyboard') :
                 storyboard'[k].isLoadingImage /\ storyboard'[k].imageUrl = Null
       /\ \A k \in 1..Len(storyboard') :
             storyboard'[k].isLoadingImage => storyboard'[k].imageUrl = Null
       /\ \A k \in 1..Len(storyboard) :
             ~storyboard[k].isLoadingImage =>
                 /\ k <= Len(storyboard')
                 /\ ~storyboard'[k].isLoadingImage
                 /\ storyboard'[k].imageUrl = storyboard[k].imageUrl
    ]_vars

\* a failed scene and a successful scene, both settled, with a later scene
\* resolved after them
C17_Witness ==
    /\ Len(storyboard) >= 3
    /\ ~storyboard[1].isLoadingImage /\ storyboard[1].imageUrl = Null
    /\ ~storyboard[2].isLoadingImage /\ storyboard[2].imageUrl # Null
    /\ ~storyboard[3].isLoadingImage

\* C18 - Merging the image result of scene i keeps the length and order of
\* the storyboard and every narration, and leaves imageUrl and imageLoading
\* of every scene j # i as they were.
C18_MergeFrame ==
    [][ImageReturns =>
           LET i == runs[owner'].i IN
           /\ Len(storyboard') = Len(storyboard)
           /\ \A j \in 1..Len(storyboard) :
                 /\ storyboard'[j].narration = storyboard[j].narration
                 /\ j - 1 # i =>
                       /\ storyboard'[j].imageUrl = storyboard[j].imageUrl
                       /\ storyboard'[j].isLoadingImage
                             = storyboard[j].isLoadingImage
    ]_vars

\* the result of the last scene has been merged into a storyboard whose
\* first scene failed
C18_Witness ==
    /\ Len(storyboard) = ExpectedScenes
    /\ storyboard[1].imageUrl = Null
    /\ ResolvedScenes = 1..ExpectedScenes
    /\ storyboard[ExpectedScenes].imageUrl # Null

\* C19 - Through the rendered controls a run starts only from a state with
\* an empty storyboard, busy false and a non-blank concept; while the
\* storyboard is not empty no run starts, and once its run has completed
\* the storyboard never changes.
C19_NoRunAfterStoryboard ==
    [][/\ Len(runs') > Len(runs) =>
             storyboard = << >> /\ ~isLoading /\ ~IsBlank(concept)
       /\ storyboard # << >> => Len(runs') = Len(runs)
       /\ (storyboard # << >> /\ ~isLoading) => storyboard' = storyboard
    ]_vars

\* the first run has completed with a storyboard, and the bound on runs
\* would still let another one start
C19_Witness ==
    /\ Len(runs) = 1
    /\ Len(runs) < MaxRuns
    /\ LastRunDone
    /\ Len(storyboard) > 0
    /\ ~isLoading
    /\ ~IsBlank(concept)

====
